---- MODULE Spec2Model ----
(***************************************************************************)
(* Model of src/app.py: the Flask handler predict() of the object          *)
(* detection front end.  Strings are sequences of one-character strings,   *)
(* so that sanitising, lower-casing, suffix tests and path arithmetic are  *)
(* computed rather than assumed.  The disk (static/uploads, static/results)*)
(* is shared by all requests; every request owns its local variables.      *)
(***************************************************************************)
EXTENDS Integers, Sequences, FiniteSets, TLC

(***************************************************************************)
(* Bounds of the model.                                                    *)
(***************************************************************************)
\* longest detection list the external model returns (single-request runs)
MaxBoxes == 2

\* the two /predict requests of a behaviour
Reqs == {1, 2}

(***************************************************************************)
(* String helpers (Python str methods used by the handler).                *)
(***************************************************************************)
UpperChars == <<"A","B","C","D","E","F","G","H","I","J","K","L","M",
                "N","O","P","Q","R","S","T","U","V","W","X","Y","Z">>
LowerChars == <<"a","b","c","d","e","f","g","h","i","j","k","l","m",
                "n","o","p","q","r","s","t","u","v","w","x","y","z">>
DigitChars == <<"0","1","2","3","4","5","6","7","8","9">>

Range(s) == {s[i] : i \in DOMAIN s}

\* str.lower() on one character
LowerChar(c) ==
  IF \E i \in DOMAIN UpperChars : UpperChars[i] = c
    THEN LowerChars[CHOOSE i \in DOMAIN UpperChars : UpperChars[i] = c]
    ELSE c

\* str.lower()
Lower(s) == [i \in DOMAIN s |-> LowerChar(s[i])]

\* str.endswith(suffix)
EndsWith(s, suf) ==
  /\ Len(suf) <= Len(s)
  /\ SubSeq(s, Len(s) - Len(suf) + 1, Len(s)) = suf

\* str.startswith(prefix)
StartsWith(s, pre) ==
  /\ Len(pre) <= Len(s)
  /\ SubSeq(s, 1, Len(pre)) = pre

\* str.replace(old, new) for single characters
RECURSIVE ReplaceChar(_, _, _)
ReplaceChar(s, old, new) ==
  IF s = <<>> THEN <<>>
  ELSE <<IF Head(s) = old THEN new ELSE Head(s)>> \o ReplaceChar(Tail(s), old, new)

\* str.split(sep) for a one-character separator: the list of fields
RECURSIVE SplitOn(_, _)
SplitOn(s, sep) ==
  IF \A i \in DOMAIN s : s[i] # sep THEN <<s>>
  ELSE LET k == CHOOSE i \in DOMAIN s :
                  s[i] = sep /\ \A j \in 1..(i - 1) : s[j] # sep
       IN <<SubSeq(s, 1, k - 1)>> \o SplitOn(SubSeq(s, k + 1, Len(s)), sep)

\* sep.join(parts)
RECURSIVE JoinWith(_, _)
JoinWith(parts, sep) ==
  IF parts = <<>> THEN <<>>
  ELSE IF Len(parts) = 1 THEN parts[1]
  ELSE parts[1] \o <<sep>> \o JoinWith(Tail(parts), sep)

\* the fields of a list that are not empty
RECURSIVE NonEmpty(_)
NonEmpty(parts) ==
  IF parts = <<>> THEN <<>>
  ELSE (IF Head(parts) = <<>> THEN <<>> ELSE <<Head(parts)>>) \o NonEmpty(Tail(parts))

\* the characters of s that are in the set keep, in order
RECURSIVE KeepChars(_, _)
KeepChars(s, keep) ==
  IF s = <<>> THEN <<>>
  ELSE (IF Head(s) \in keep THEN <<Head(s)>> ELSE <<>>) \o KeepChars(Tail(s), keep)

\* str.strip(chars)
RECURSIVE StripChars(_, _)
StripChars(s, chars) ==
  IF s = <<>> THEN <<>>
  ELSE IF s[1] \in chars THEN StripChars(Tail(s), chars)
  ELSE IF s[Len(s)] \in chars THEN StripChars(SubSeq(s, 1, Len(s) - 1), chars)
  ELSE s

\* str(n) for a class id below 10
IntToStr(n) == <<DigitChars[n + 1]>>

(***************************************************************************)
(* Program constants.                                                      *)
(***************************************************************************)
\* 'static/uploads/'
UPLOAD_FOLDER == <<"s","t","a","t","i","c","/","u","p","l","o","a","d","s","/">>
\* 'static/results/'
RESULT_FOLDER == <<"s","t","a","t","i","c","/","r","e","s","u","l","t","s","/">>
\* "result_", the prefix of the per-request subdirectory name
RESULT_PREFIX == <<"r","e","s","u","l","t","_">>
\* the directory of app.py, which Flask takes as the application root; the
\* server is started there, so it is the working directory as well
ROOT_PATH == <<"/","s","r","v">>
cwd == ROOT_PATH
\* app.static_folder: <root>/static
STATIC_FOLDER == ROOT_PATH \o <<"/","s","t","a","t","i","c">>
\* the last resort of the path resolver
DEFAULT_IMAGE == <<"u","p","l","o","a","d","s","/","d","e","f","a","u","l","t","_","i","m","a","g","e",".","j","p","g">>
\* the suffixes the artifact locator accepts
IMAGE_SUFFIXES == { <<".","j","p","g">>,
                    <<".","j","p","e","g">>,
                    <<".","p","n","g">>,
                    <<".","b","m","p">>,
                    <<".","g","i","f">> }
\* "milco"
MILCO == <<"m","i","l","c","o">>
\* f"Class {cls_id}"
CLASS_PREFIX == <<"C","l","a","s","s"," ">>

\* the warning text of line 81 (its leading warning sign is not a character a
\* TLA+ string can hold)
MINE_ALERT == "Mine ahead!"
NOT_FOUND_ALERT == "Prediction completed, but annotated image not found. Showing original."
NO_OBJECTS_ALERT == "No objects detected."
FAILED_ALERT == "Prediction failed."

\* confidences are fixed-point numbers: the integer x stands for x / Unit
Unit == 100000
\* float(box.conf[0]) * 100
PercentScale == 100
\* conf > 60
AlertThreshold == 60
\* round(conf, 2)
RoundDigits == 2

\* model.names of the loaded weights: class id -> label
ModelNames == 0 :> <<"M","I","L","C","O">> @@ 1 :> <<"N","O","M","B","O">>

(***************************************************************************)
(* werkzeug.utils.secure_filename and the os.path functions the handler    *)
(* calls (POSIX flavour).                                                  *)
(***************************************************************************)
SafeChars == Range(UpperChars) \cup Range(LowerChars) \cup Range(DigitChars)
               \cup {"_", ".", "-"}

\* secure_filename: separators become blanks, blank-separated words are
\* joined by "_", unsafe characters are dropped, leading and trailing dots
\* and underscores are stripped
secure_filename(name) ==
  LET spaced == ReplaceChar(name, "/", " ")
      joined == JoinWith(NonEmpty(SplitOn(spaced, " ")), "_")
  IN StripChars(KeepChars(joined, SafeChars), {".", "_"})

\* the largest index of character c in s, 0 when absent
LastIndex(s, c) ==
  IF \E i \in DOMAIN s : s[i] = c
    THEN CHOOSE i \in DOMAIN s : s[i] = c /\ \A j \in (i + 1)..Len(s) : s[j] # c
    ELSE 0

\* os.path.splitext(p)[0]
splitext_root(p) ==
  LET sepIndex == LastIndex(p, "/")
      dotIndex == LastIndex(p, ".")
  IN IF dotIndex > sepIndex
          /\ \E j \in (sepIndex + 1)..(dotIndex - 1) : p[j] # "."
       THEN SubSeq(p, 1, dotIndex - 1)
       ELSE p

\* os.path.join(a, b)
path_join(a, b) ==
  IF b # <<>> /\ b[1] = "/" THEN b
  ELSE IF a = <<>> \/ a[Len(a)] = "/" THEN a \o b
  ELSE a \o <<"/">> \o b

\* the component loop of os.path.normpath
RECURSIVE NormComps(_, _, _)
NormComps(comps, acc, rooted) ==
  IF comps = <<>> THEN acc
  ELSE LET c == Head(comps) IN
    IF c = <<>> \/ c = <<".">> THEN NormComps(Tail(comps), acc, rooted)
    ELSE IF c # <<".", ".">>
            \/ (~rooted /\ acc = <<>>)
            \/ (acc # <<>> /\ acc[Len(acc)] = <<".", ".">>)
      THEN NormComps(Tail(comps), Append(acc, c), rooted)
    ELSE IF acc # <<>>
      THEN NormComps(Tail(comps), SubSeq(acc, 1, Len(acc) - 1), rooted)
    ELSE NormComps(Tail(comps), acc, rooted)

\* os.path.normpath(p)
normpath(p) ==
  IF p = <<>> THEN <<".">>
  ELSE LET rooted == p[1] = "/"
           body == JoinWith(NormComps(SplitOn(p, "/"), <<>>, rooted), "/")
       IN IF rooted THEN <<"/">> \o body
          ELSE IF body = <<>> THEN <<".">> ELSE body

\* os.path.abspath(p)
abspath(p) ==
  normpath(IF p # <<>> /\ p[1] = "/" THEN p ELSE path_join(cwd, p))

\* the length of the longest common prefix of two component lists
RECURSIVE CommonLen(_, _)
CommonLen(a, b) ==
  IF a = <<>> \/ b = <<>> \/ Head(a) # Head(b) THEN 0
  ELSE 1 + CommonLen(Tail(a), Tail(b))

\* os.path.relpath(path, start), for a non-empty path
relpath(path, start) ==
  LET start_list == NonEmpty(SplitOn(abspath(start), "/"))
      path_list == NonEmpty(SplitOn(abspath(path), "/"))
      i == CommonLen(start_list, path_list)
      rel_list == [k \in 1..(Len(start_list) - i) |-> <<".", ".">>]
                    \o SubSeq(path_list, i + 1, Len(path_list))
  IN IF rel_list = <<>> THEN <<".">> ELSE JoinWith(rel_list, "/")


(***************************************************************************)
(* Result Aggregator (lines 59-81).  A box is [cls, conf]: a class id and  *)
(* a confidence in [0,1] as a fixed-point number.                          *)
(***************************************************************************)
\* dict.get(key, default)
DictGet(d, key, default) == IF key \in DOMAIN d THEN d[key] ELSE default

\* d[key] = value
DictPut(d, key, value) ==
  [k \in DOMAIN d \cup {key} |-> IF k = key THEN value ELSE d[k]]

RECURSIVE Pow10(_)
Pow10(n) == IF n = 0 THEN 1 ELSE 10 * Pow10(n - 1)

\* round(x, digits) of a fixed-point number: to the nearest multiple of
\* 10^-digits, a tie going to the even multiple
round(x, digits) ==
  LET step == Unit \div Pow10(digits)
      q == x \div step
      rem == x % step
  IN IF 2 * rem < step THEN q * step
     ELSE IF 2 * rem > step THEN (q + 1) * step
     ELSE IF q % 2 = 0 THEN q * step ELSE (q + 1) * step

\* model.names.get(cls_id, f"Class {cls_id}")
LabelOf(cls_id) ==
  DictGet(ModelNames, cls_id, CLASS_PREFIX \o IntToStr(cls_id))

\* float(box.conf[0]) * 100
ScaleConf(c) == c * PercentScale

\* IsMineAlert with conf >= 60
IsMineAlertAtLeast(label, conf) ==
  Lower(label) = MILCO /\ conf >= AlertThreshold * Unit

\* label.lower() == "milco" and conf > 60
IsMineAlert(label, conf) ==
  Lower(label) = MILCO /\ conf > AlertThreshold * Unit

\* AggregateBox with class_counts[label] = 1 in place of the increment
AggregateBoxNoCount(st, box) ==
  LET conf == ScaleConf(box.conf)
      label == LabelOf(box.cls)
  IN [predictions |->
        Append(st.predictions,
               [label |-> label, confidence |-> round(conf, RoundDigits)]),
      class_counts |-> DictPut(st.class_counts, label, 1),
      alert_message |->
        IF Lower(label) = MILCO /\ conf > AlertThreshold * Unit
          THEN MINE_ALERT ELSE st.alert_message]

\* one iteration of the loop over the boxes (lines 73-81)
AggregateBox(st, box) ==
  LET cls_id == box.cls
      conf == ScaleConf(box.conf)
      label == LabelOf(cls_id)
  IN [predictions |->
        Append(st.predictions,
               [label |-> label, confidence |-> round(conf, RoundDigits)]),
      class_counts |->
        DictPut(st.class_counts, label, DictGet(st.class_counts, label, 0) + 1),
      alert_message |->
        IF IsMineAlert(label, conf) THEN MINE_ALERT ELSE st.alert_message]

\* for box in boxes (line 72), in order
RECURSIVE AggregateLoop(_, _)
AggregateLoop(st, boxes) ==
  IF boxes = <<>> THEN st
  ELSE AggregateLoop(AggregateBox(st, Head(boxes)), Tail(boxes))

\* predictions = [], class_counts = {}, alert_message = "" (lines 59-61)
EmptyAggregate ==
  [predictions |-> <<>>, class_counts |-> <<>>, alert_message |-> ""]

\* boxes is not None and len(boxes) > 0
HasDetections(results) ==
  /\ Len(results) > 0
  /\ ~results[1].boxes.none
  /\ Len(results[1].boxes.items) > 0

\* Aggregate without the else branch of lines 107-110
AggregateNoEmptyBranch(results) ==
  IF Len(results) > 0
    THEN AggregateLoop(EmptyAggregate, results[1].boxes.items)
    ELSE [EmptyAggregate EXCEPT !.alert_message = FAILED_ALERT]

\* the three branches of lines 65-117 that do not touch the disk
Aggregate(results) ==
  IF Len(results) > 0
    THEN IF HasDetections(results)
           THEN AggregateLoop(EmptyAggregate, results[1].boxes.items)
           ELSE [EmptyAggregate EXCEPT !.alert_message = NO_OBJECTS_ALERT]
    ELSE [EmptyAggregate EXCEPT !.alert_message = FAILED_ALERT]

(***************************************************************************)
(* Artifact Locator (lines 87-105).                                        *)
(***************************************************************************)
\* file_in_dir.lower().endswith(('.jpg', '.jpeg', '.png', '.bmp', '.gif'))
IsImageName(name) == \E suf \in IMAGE_SUFFIXES : EndsWith(Lower(name), suf)

\* the loop of lines 91-97: the first image-like entry, as a list of one
\* name, or the empty list
RECURSIVE FirstImage(_)
FirstImage(listing) ==
  IF listing = <<>> THEN <<>>
  ELSE IF IsImageName(Head(listing)) THEN <<Head(listing)>>
  ELSE FirstImage(Tail(listing))

\* LocateArtifact that shows result_dir itself when it finds no image
LocateArtifactAssumeDir(result_dir, dir_exists, listing, filepath, alert_message) ==
  LET hit == IF dir_exists THEN FirstImage(listing) ELSE <<>>
      found == hit # <<>>
  IN [found_annotated_image |-> found,
      image_to_display_path |->
        IF found THEN path_join(result_dir, hit[1]) ELSE result_dir,
      alert_message |-> IF found THEN alert_message ELSE NOT_FOUND_ALERT]

\* LocateArtifact that keeps an alert the aggregator has set
LocateArtifactKeepAlert(result_dir, dir_exists, listing, filepath, alert_message) ==
  LET hit == IF dir_exists THEN FirstImage(listing) ELSE <<>>
      found == hit # <<>>
  IN [found_annotated_image |-> found,
      image_to_display_path |->
        IF found THEN path_join(result_dir, hit[1]) ELSE filepath,
      alert_message |->
        IF found \/ alert_message # "" THEN alert_message
        ELSE NOT_FOUND_ALERT]

\* lines 87-105, given whether result_dir exists and what listdir returned
LocateArtifact(result_dir, dir_exists, listing, filepath, alert_message) ==
  LET hit == IF dir_exists THEN FirstImage(listing) ELSE <<>>
      found == hit # <<>>
  IN [found_annotated_image |-> found,
      image_to_display_path |->
        IF found THEN path_join(result_dir, hit[1]) ELSE filepath,
      alert_message |-> IF found THEN alert_message ELSE NOT_FOUND_ALERT]

(***************************************************************************)
(* Path Resolver (lines 124-154).  raises is the set of library calls that *)
(* raise when they are executed, among "abs_image" (line 126),             *)
(* "abs_static" (129), "relpath" (133), "abs_original" (147) and           *)
(* "rel_original" (148).                                                   *)
(***************************************************************************)
\* rel_path.replace("\\", "/") of the path relative to the static folder
HtmlPath(path) ==
  ReplaceChar(relpath(abspath(path), abspath(STATIC_FOLDER)), "\\", "/")

\* the first call of the try block of lines 126-133 that raises, if any
FirstRaise(raises) ==
  IF "abs_image" \in raises THEN <<"abs_image">>
  ELSE IF "abs_static" \in raises THEN <<"abs_static">>
  ELSE IF "relpath" \in raises THEN <<"relpath">>
  ELSE <<>>

\* what raises in the handler of lines 145-149, if anything; line 148 reads
\* abs_static_folder_path, which is bound only if line 129 completed
SecondRaise(raises) ==
  IF "abs_original" \in raises THEN <<"abs_original">>
  ELSE IF FirstRaise(raises) # <<"relpath">> THEN <<"NameError">>
  ELSE IF "rel_original" \in raises THEN <<"rel_original">>
  ELSE <<>>

\* ResolvePath without the inner try of lines 145-154: what raises in the
\* first handler leaves the stage
ResolvePathNoFinal(image_to_display_path, filepath, raises) ==
  IF FirstRaise(raises) = <<>>
    THEN [tier |-> "artifact", raised |-> <<>>, escaped |-> FALSE,
          img_path_for_html |-> HtmlPath(image_to_display_path)]
  ELSE IF SecondRaise(raises) = <<>>
    THEN [tier |-> "original", raised |-> FirstRaise(raises),
          escaped |-> FALSE,
          img_path_for_html |-> HtmlPath(filepath)]
  ELSE [tier |-> "placeholder", raised |-> FirstRaise(raises),
        escaped |-> TRUE, img_path_for_html |-> <<>>]

\* lines 124-154: tier names the branch that bound img_path_for_html, raised
\* lists the exceptions caught on the way, escaped says whether one leaves
\* the stage
ResolvePath(image_to_display_path, filepath, raises) ==
  IF FirstRaise(raises) = <<>>
    THEN [tier |-> "artifact", raised |-> <<>>, escaped |-> FALSE,
          img_path_for_html |-> HtmlPath(image_to_display_path)]
  ELSE IF SecondRaise(raises) = <<>>
    THEN [tier |-> "original", raised |-> FirstRaise(raises),
          escaped |-> FALSE,
          img_path_for_html |-> HtmlPath(filepath)]
  ELSE [tier |-> "placeholder",
        raised |-> FirstRaise(raises) \o SecondRaise(raises),
        escaped |-> FALSE,
        img_path_for_html |-> DEFAULT_IMAGE]

(***************************************************************************)
(* State.                                                                  *)
(*   model_loaded  whether YOLO(MODEL_PATH) succeeded (lines 21-26)        *)
(*   files         the regular files under static/: path -> [bytes, by,    *)
(*                 annotated]; bytes names the upload the content comes    *)
(*                 from, by the request whose step wrote the file          *)
(*   dirs          the result subdirectories that exist                    *)
(*   pc            where each request's handler stands                     *)
(*   file          request.files['file'] of each request                   *)
(*   local         the handler's local variables, per request              *)
(*   trace         per request: what its steps observed (see Trace0)       *)
(*   response      per request: status and body of the answer              *)
(***************************************************************************)
VARIABLES model_loaded, files, dirs, pc, file, local, trace, response

vars == <<model_loaded, files, dirs, pc, file, local, trace, response>>

\* the handler's locals before line 41
Local0 ==
  [filename |-> <<>>, filepath |-> <<>>, result_dir |-> <<>>,
   results |-> <<>>, predictions |-> <<>>, class_counts |-> <<>>,
   alert_message |-> "", image_to_display_path |-> <<>>,
   found_annotated_image |-> FALSE, img_path_for_html |-> <<>>]

\* invoked: model.predict was called; seen: the upload whose bytes the
\* model read (0: none); wrote: the paths the model call wrote; consulted:
\* the result directory was looked up; dir_existed: it existed then;
\* listing: what os.listdir returned; stage_alert: alert_message when the
\* loop over the boxes ended; tier: the branch of the path resolver taken;
\* raised: the exceptions the path resolver caught
Trace0 ==
  [invoked |-> FALSE, seen |-> 0, wrote |-> {}, consulted |-> FALSE,
   dir_existed |-> FALSE, listing |-> <<>>, stage_alert |-> "", tier |-> "",
   raised |-> <<>>]

NoResponse == [status |-> 0, body |-> ""]

Init ==
  /\ model_loaded \in BOOLEAN
  /\ files = <<>>
  /\ dirs = {}
  /\ pc = [r \in Reqs |-> "idle"]
  /\ file = [r \in Reqs |-> [present |-> FALSE, filename |-> <<>>]]
  /\ local = [r \in Reqs |-> Local0]
  /\ trace = [r \in Reqs |-> Trace0]
  /\ response = [r \in Reqs |-> NoResponse]

(***************************************************************************)
(* The disk.                                                               *)
(***************************************************************************)
\* open(path, "wb") fails on a directory
IsDirectory(path) == path = <<>> \/ path[Len(path)] = "/" \/ path \in dirs

\* the file at path now holds the given content
WriteFile(fs, path, content) == DictPut(fs, path, content)

\* os.listdir(d): the names directly under d
listdir(d) ==
  LET under == {p \in DOMAIN files :
                  /\ StartsWith(p, d \o <<"/">>)
                  /\ "/" \notin Range(SubSeq(p, Len(d) + 2, Len(p)))}
  IN {SubSeq(p, Len(d) + 2, Len(p)) : p \in under}

\* the orders in which os.listdir may return a set of names
Orders(names) ==
  {f \in [1..Cardinality(names) -> names] :
     \A i, j \in DOMAIN f : i # j => f[i] # f[j]}

(***************************************************************************)
(* Upload Handler (lines 34-43).                                           *)
(***************************************************************************)
\* Validate without the check of line 38
ValidateNoEmptyCheck(f) ==
  IF ~f.present THEN "No file uploaded" ELSE "ok"

\* the two checks of lines 34-39
Validate(f) ==
  IF ~f.present THEN "No file uploaded"
  ELSE IF f.filename = <<>> THEN "No file selected"
  ELSE "ok"

\* UploadPath with a name of its own for every request
UploadPathPerRequest(r, filename) ==
  path_join(UPLOAD_FOLDER, IntToStr(r) \o <<"_">> \o filename)

\* os.path.join(app.config['UPLOAD_FOLDER'], filename)
UploadPath(r, filename) == path_join(UPLOAD_FOLDER, filename)

Finish(r, status, body) ==
  /\ pc' = [pc EXCEPT ![r] = "done"]
  /\ response' = [response EXCEPT ![r] = [status |-> status, body |-> body]]

UploadHandler(r, inputs) ==
  /\ pc[r] = "idle"
  /\ \E f \in inputs :
       /\ file' = [file EXCEPT ![r] = f]
       /\ IF Validate(f) # "ok"
            THEN /\ Finish(r, 400, Validate(f))
                 /\ UNCHANGED <<files, local>>
            ELSE LET filename == secure_filename(f.filename)
                     filepath == UploadPath(r, filename)
                 IN /\ local' = [local EXCEPT ![r].filename = filename,
                                              ![r].filepath = filepath]
                    /\ IF IsDirectory(filepath)
                         THEN \* file.save raises: unhandled, a 500 answer
                              /\ Finish(r, 500, "Internal Server Error")
                              /\ UNCHANGED files
                         ELSE /\ files' = WriteFile(files, filepath,
                                   [bytes |-> r, by |-> r, annotated |-> FALSE])
                              /\ pc' = [pc EXCEPT ![r] = "saved"]
                              /\ UNCHANGED response
  /\ UNCHANGED <<model_loaded, dirs, trace>>

(***************************************************************************)
(* Detection Invoker (lines 46-56).  The model is external: an outcome is  *)
(* whether the call raises, the result sequence it returns and which files *)
(* save=True leaves in result_dir (none when it saves elsewhere).          *)
(***************************************************************************)
\* f"result_{os.path.splitext(filename)[0]}" under RESULT_FOLDER
ResultDir(filename) ==
  path_join(RESULT_FOLDER, RESULT_PREFIX \o splitext_root(filename))

\* the files one model call leaves in result_dir: the annotated image under
\* the upload's name, a label file next to it
SavedPaths(result_dir, filename, saves) ==
  {path_join(result_dir, filename) : x \in saves \cap {"image"}}
    \cup {path_join(result_dir, splitext_root(filename) \o <<".","t","x","t">>)
            : x \in saves \cap {"labels"}}

RECURSIVE WriteAll(_, _, _)
WriteAll(fs, paths, content) ==
  IF paths = {} THEN fs
  ELSE LET p == CHOOSE q \in paths : TRUE
       IN WriteAll(WriteFile(fs, p, content), paths \ {p}, content)

DetectionInvoker(r, outcomes) ==
  /\ pc[r] = "saved"
  /\ LET result_dir == ResultDir(local[r].filename) IN
     IF ~model_loaded
       THEN \* model is None: model.predict raises AttributeError
            /\ local' = [local EXCEPT ![r].result_dir = result_dir]
            /\ Finish(r, 500, "Internal Server Error")
            /\ UNCHANGED <<files, dirs, trace>>
       ELSE \E out \in outcomes :
         IF out.raises
           THEN /\ local' = [local EXCEPT ![r].result_dir = result_dir]
                /\ trace' = [trace EXCEPT ![r].invoked = TRUE]
                /\ Finish(r, 500, "Internal Server Error")
                /\ UNCHANGED <<files, dirs>>
           ELSE LET source == files[local[r].filepath]
                    paths == SavedPaths(result_dir, local[r].filename, out.saves)
                IN /\ local' = [local EXCEPT ![r].result_dir = result_dir,
                                             ![r].results = out.results]
                   /\ trace' = [trace EXCEPT ![r].invoked = TRUE,
                                             ![r].seen = source.bytes,
                                             ![r].wrote = paths]
                   /\ files' = WriteAll(files, paths,
                        [bytes |-> source.bytes, by |-> r, annotated |-> TRUE])
                   /\ dirs' = IF paths = {} THEN dirs ELSE dirs \cup {result_dir}
                   /\ pc' = [pc EXCEPT ![r] = "predicted"]
                   /\ UNCHANGED response
  /\ UNCHANGED <<model_loaded, file>>

(***************************************************************************)
(* Result Aggregator: lines 59-81 for a list with detections, and the two  *)
(* branches of lines 107-117 otherwise, which skip the locator.            *)
(***************************************************************************)
ResultAggregator(r) ==
  /\ pc[r] = "predicted"
  /\ LET agg == Aggregate(local[r].results) IN
       /\ local' = [local EXCEPT
            ![r].predictions = agg.predictions,
            ![r].class_counts = agg.class_counts,
            ![r].alert_message = agg.alert_message,
            ![r].image_to_display_path = local[r].filepath]
       /\ trace' = [trace EXCEPT ![r].stage_alert = agg.alert_message]
  /\ pc' = [pc EXCEPT ![r] =
       IF HasDetections(local[r].results) THEN "aggregated" ELSE "located"]
  /\ UNCHANGED <<model_loaded, files, dirs, file, response>>

(***************************************************************************)
(* Artifact Locator (lines 87-105).                                        *)
(***************************************************************************)
ArtifactLocator(r) ==
  /\ pc[r] = "aggregated"
  /\ LET result_dir == local[r].result_dir
         dir_exists == result_dir \in dirs
     IN \E listing \in (IF dir_exists THEN Orders(listdir(result_dir))
                                      ELSE {<<>>}) :
          LET loc == LocateArtifact(result_dir, dir_exists, listing,
                                    local[r].filepath, local[r].alert_message)
          IN /\ local' = [local EXCEPT
                  ![r].found_annotated_image = loc.found_annotated_image,
                  ![r].image_to_display_path = loc.image_to_display_path,
                  ![r].alert_message = loc.alert_message]
             /\ trace' = [trace EXCEPT ![r].consulted = TRUE,
                                       ![r].dir_existed = dir_exists,
                                       ![r].listing = listing]
  /\ pc' = [pc EXCEPT ![r] = "located"]
  /\ UNCHANGED <<model_loaded, files, dirs, file, response>>

(***************************************************************************)
(* Path Resolver and Presenter (lines 124-163).                            *)
(***************************************************************************)
Presenter(r, faults) ==
  /\ pc[r] = "located"
  /\ \E raises \in faults :
       LET res == ResolvePath(local[r].image_to_display_path,
                              local[r].filepath, raises)
       IN /\ local' = [local EXCEPT
               ![r].img_path_for_html = res.img_path_for_html]
          /\ trace' = [trace EXCEPT ![r].tier = res.tier,
                                    ![r].raised = res.raised]
          /\ IF res.escaped
               THEN Finish(r, 500, "Internal Server Error")
               ELSE Finish(r, 200, "result.html")
  /\ UNCHANGED <<model_loaded, files, dirs, file>>


(***************************************************************************)
(* Inputs: what a client sends, what the external model answers, which     *)
(* library calls of the path resolver raise.                               *)
(***************************************************************************)
NoFileField == [present |-> FALSE, filename |-> <<>>]
FileField(name) == [present |-> TRUE, filename |-> name]

A_JPG == <<"a",".","j","p","g">>
A_PNG == <<"a",".","P","N","G">>
UP_A_JPG == <<".",".","/","a",".","j","p","g">>
DOTDOT == <<".",".">>

SeqsUpTo(S, n) == UNION {[1..k -> S] : k \in 0..n}

ClassIds == {0, 1, 2}
\* 0.5, 0.6, 0.60004 and 0.75 (conf=0.25 of line 52 keeps them above 0.25)
Confs == {50000, 60000, 60004, 75000}
Boxes == [cls : ClassIds, conf : Confs]

\* the result sequences model.predict can return for one source: empty,
\* or one per-image result whose boxes are None or a list
ResultsOver(lists) ==
  {<<>>, <<[boxes |-> [none |-> TRUE, items |-> <<>>]]>>}
    \cup {<<[boxes |-> [none |-> FALSE, items |-> l]]>> : l \in lists}

OutcomesOver(lists, savesets) ==
  {[raises |-> TRUE, results |-> <<>>, saves |-> {}]}
    \cup [raises : {FALSE}, results : ResultsOver(lists), saves : savesets]

\* a single request: long detection lists, and library calls of the path
\* resolver that raise
OneInputs ==
  {NoFileField, FileField(<<>>), FileField(A_JPG), FileField(A_PNG),
   FileField(UP_A_JPG), FileField(DOTDOT)}
OneOutcomes == OutcomesOver(SeqsUpTo(Boxes, MaxBoxes), SUBSET {"image", "labels"})
\* one set for every path through the try blocks of lines 124-154
OneFaults ==
  {{}, {"abs_image"}, {"abs_image", "abs_original"},
   {"abs_static"}, {"abs_static", "abs_original"},
   {"relpath"}, {"relpath", "abs_original"}, {"relpath", "rel_original"}}

\* several requests: short detection lists, library calls that return
ManyInputs ==
  {NoFileField, FileField(<<>>), FileField(A_JPG), FileField(A_PNG),
   FileField(DOTDOT)}
ManyLists ==
  {<<>>, <<[cls |-> 0, conf |-> 75000]>>,
   <<[cls |-> 1, conf |-> 50000], [cls |-> 2, conf |-> 60000]>>}
ManyOutcomes == OutcomesOver(ManyLists, SUBSET {"image", "labels"})
ManyFaults == {{}}

(***************************************************************************)
(* Specifications.                                                         *)
(***************************************************************************)
Step(r, inputs, outcomes, faults) ==
  \/ UploadHandler(r, inputs)
  \/ DetectionInvoker(r, outcomes)
  \/ ResultAggregator(r)
  \/ ArtifactLocator(r)
  \/ Presenter(r, faults)

\* no other request is being handled
Alone(r) == \A q \in Reqs \ {r} : pc[q] \in {"idle", "done"}

\* the threaded server: the handlers of all requests interleave
Next == \E r \in Reqs : Step(r, ManyInputs, ManyOutcomes, ManyFaults)
Spec == Init /\ [][Next]_vars

\* the requests arrive one after the other
SeqNext ==
  \E r \in Reqs : Alone(r) /\ Step(r, ManyInputs, ManyOutcomes, ManyFaults)
SeqSpec == Init /\ [][SeqNext]_vars

\* a single request on a fresh disk, under every input
OneNext == Step(1, OneInputs, OneOutcomes, OneFaults)
OneSpec == Init /\ [][OneNext]_vars


(***************************************************************************)
(* Vocabulary of the properties.                                           *)
(***************************************************************************)
STATIC_PREFIX == <<"s","t","a","t","i","c","/">>
UPLOADS_PREFIX == <<"u","p","l","o","a","d","s","/">>
RESULTS_PREFIX == <<"r","e","s","u","l","t","s","/">>

\* the handler of request r has run past the artifact locator (a request
\* that ends before it has no resolver tier)
Located(r) == pc[r] = "located" \/ (pc[r] = "done" /\ trace[r].tier # "")
\* the handler of request r has run past the aggregator
Aggregated(r) == pc[r] = "aggregated" \/ Located(r)
\* request r carries a 'file' field with a non-empty filename
ValidUpload(r) == file[r].present /\ file[r].filename # <<>>

\* the boxes of the first per-image result of request r
BoxesOf(r) == local[r].results[1].boxes.items

\* text equals word up to letter case (word is in lower case)
AnyCase(text, word) ==
  /\ Len(text) = Len(word)
  /\ \A i \in DOMAIN word :
       \/ text[i] = word[i]
       \/ \E k \in DOMAIN LowerChars :
            LowerChars[k] = word[i] /\ UpperChars[k] = text[i]

\* name ends, in any letter case, in .jpg, .jpeg, .png, .bmp or .gif
ImageLike(name) ==
  \E suf \in IMAGE_SUFFIXES :
    /\ Len(name) >= Len(suf)
    /\ AnyCase(SubSeq(name, Len(name) - Len(suf) + 1, Len(name)), suf)

\* a relative path that stays below the directory it is relative to
UnderStaticRoot(path) ==
  /\ path # <<>>
  /\ path[1] # "/"
  /\ \A c \in Range(SplitOn(path, "/")) : c \notin {<<>>, <<".">>, <<".", ".">>}

RECURSIVE SumValues(_)
SumValues(d) ==
  IF DOMAIN d = {} THEN 0
  ELSE LET k == CHOOSE x \in DOMAIN d : TRUE
       IN d[k] + SumValues([x \in DOMAIN d \ {k} |-> d[x]])

\* the page of request r shows the original upload: uploads/<filename>
ShowsUpload(r) ==
  /\ response[r] = [status |-> 200, body |-> "result.html"]
  /\ local[r].img_path_for_html = UPLOADS_PREFIX \o local[r].filename

(***************************************************************************)
(* C1.  Every POST /predict with a 'file' field and a non-empty filename   *)
(* is answered 200 with the result page, whose img_path is a path below    *)
(* the static root, whatever the sanitized filename is and whether or not  *)
(* the model was loaded.  The handler does not do this: with model = None  *)
(* line 50 raises, and a filename that sanitizes to "" makes file.save     *)
(* raise.                                                                  *)
(***************************************************************************)
C1_ValidUploadRendered ==
  \A r \in Reqs :
    (pc[r] = "done" /\ ValidUpload(r)) =>
      /\ response[r] = [status |-> 200, body |-> "result.html"]
      /\ UnderStaticRoot(local[r].img_path_for_html)

(***************************************************************************)
(* C2.  A request without a 'file' field, or whose filename is empty, is   *)
(* answered 400 with a plain text, and nothing is processed for it: the    *)
(* model is not invoked, no file of the uploads or results directories is  *)
(* written by it, and no local of the handler past the checks is set.      *)
(***************************************************************************)
C2_RejectedWithoutProcessing ==
  \A r \in Reqs :
    (pc[r] = "done" /\ ~ValidUpload(r)) =>
      /\ response[r] =
           [status |-> 400,
            body |-> IF file[r].present THEN "No file selected"
                                        ELSE "No file uploaded"]
      /\ ~trace[r].invoked
      /\ trace[r].wrote = {}
      /\ \A p \in DOMAIN files : files[p].by # r
      /\ local[r] = Local0

\* a request with an empty filename was rejected while the other request's
\* files are on the disk
C2_Witness ==
  \E r \in Reqs :
    /\ pc[r] = "done"
    /\ file[r].present
    /\ file[r].filename = <<>>
    /\ response[r].status = 400
    /\ \E p \in DOMAIN files : files[p].annotated

(***************************************************************************)
(* C3.  For a first per-image result with N >= 1 boxes, predictions has N  *)
(* entries, the i-th being the label of the i-th box and its confidence in *)
(* percent to two decimals, and class_counts maps every label to the       *)
(* number of boxes that carry it, so its values sum to N.                  *)
(***************************************************************************)
C3_OnePredictionPerBox ==
  \A r \in Reqs :
    (Aggregated(r) /\ HasDetections(local[r].results)) =>
      LET boxes == BoxesOf(r)
          preds == local[r].predictions
          counts == local[r].class_counts
      IN /\ Len(preds) = Len(boxes)
         /\ \A i \in DOMAIN boxes :
              /\ preds[i].label = LabelOf(boxes[i].cls)
              \* a multiple of 0.01 within 0.005 of 100 * conf
              /\ preds[i].confidence % (Unit \div 100) = 0
              /\ 2 * (preds[i].confidence - 100 * boxes[i].conf) <= Unit \div 100
              /\ 2 * (100 * boxes[i].conf - preds[i].confidence) <= Unit \div 100
         /\ DOMAIN counts = {LabelOf(boxes[i].cls) : i \in DOMAIN boxes}
         /\ \A l \in DOMAIN counts :
              counts[l] =
                Cardinality({i \in DOMAIN boxes : LabelOf(boxes[i].cls) = l})
         /\ SumValues(counts) = Len(boxes)

\* a rendered request with two different boxes of one label
C3_Witness ==
  \E r \in Reqs :
    /\ pc[r] = "done"
    /\ response[r].status = 200
    /\ HasDetections(local[r].results)
    /\ Len(BoxesOf(r)) = 2
    /\ BoxesOf(r)[1] # BoxesOf(r)[2]
    /\ \E l \in DOMAIN local[r].class_counts : local[r].class_counts[l] = 2

(***************************************************************************)
(* C4.  When the aggregator has processed a non-empty detection list and   *)
(* the locator has not yet run, alert_message is the mine warning exactly  *)
(* when some detection has a label equal to "milco" up to letter case and  *)
(* a confidence, in percent, strictly above 60; otherwise it is empty.     *)
(***************************************************************************)
C4_MineAlert ==
  \A r \in Reqs :
    pc[r] = "aggregated" =>
      local[r].alert_message =
        IF \E i \in DOMAIN BoxesOf(r) :
             /\ AnyCase(LabelOf(BoxesOf(r)[i].cls), MILCO)
             /\ 100 * BoxesOf(r)[i].conf > 60 * Unit
          THEN MINE_ALERT
          ELSE ""

\* two qualifying detections, one of them shown as 60.0, give the warning
C4_Witness ==
  \E r \in Reqs :
    /\ pc[r] = "aggregated"
    /\ local[r].alert_message = MINE_ALERT
    /\ BoxesOf(r) = <<[cls |-> 0, conf |-> 60004], [cls |-> 0, conf |-> 75000]>>
    /\ local[r].predictions[1].confidence = 60 * Unit

(***************************************************************************)
(* C5.  When the first per-image result has an empty or absent detection   *)
(* list, the alert is "No objects detected.", predictions and class_counts *)
(* are empty, the image to display is the original upload and the result   *)
(* directory is not consulted.                                             *)
(***************************************************************************)
C5_NoDetections ==
  \A r \in Reqs :
    (Located(r) /\ Len(local[r].results) > 0
       /\ (local[r].results[1].boxes.none \/ BoxesOf(r) = <<>>)) =>
      /\ local[r].alert_message = NO_OBJECTS_ALERT
      /\ local[r].predictions = <<>>
      /\ DOMAIN local[r].class_counts = {}
      /\ local[r].image_to_display_path
           = STATIC_PREFIX \o UPLOADS_PREFIX \o local[r].filename
      /\ ~local[r].found_annotated_image
      /\ ~trace[r].consulted
      /\ pc[r] = "done" => ShowsUpload(r)

\* an empty list, rendered with the upload although the model call of the
\* same request left an annotated image in the result directory
C5_Witness ==
  \E r \in Reqs :
    /\ pc[r] = "done"
    /\ Len(local[r].results) > 0
    /\ ~local[r].results[1].boxes.none
    /\ BoxesOf(r) = <<>>
    /\ \E p \in trace[r].wrote : ImageLike(p)
    /\ local[r].img_path_for_html = UPLOADS_PREFIX \o local[r].filename

(***************************************************************************)
(* C6.  If the result directory is not found to exist when the locator     *)
(* runs, the image to display is the original upload, shown under          *)
(* uploads/<sanitized filename> and never under results/, for any          *)
(* detection list.                                                         *)
(***************************************************************************)
C6_MissingDirShowsUpload ==
  \A r \in Reqs :
    (Located(r) /\ ~trace[r].dir_existed) =>
      /\ local[r].image_to_display_path
           = STATIC_PREFIX \o UPLOADS_PREFIX \o local[r].filename
      /\ ~local[r].found_annotated_image
      /\ pc[r] = "done" =>
           /\ ShowsUpload(r)
           /\ ~StartsWith(local[r].img_path_for_html, RESULTS_PREFIX)

\* detections, a missing directory, the upload shown
C6_Witness ==
  \E r \in Reqs :
    /\ pc[r] = "done"
    /\ HasDetections(local[r].results)
    /\ trace[r].consulted
    /\ ~trace[r].dir_existed
    /\ local[r].img_path_for_html = UPLOADS_PREFIX \o local[r].filename

(***************************************************************************)
(* C7.  With detections: if the directory is missing or os.listdir shows   *)
(* no image-like name, the alert is the not-found message, whatever the    *)
(* aggregator had set, and the upload stays the image to display; else the *)
(* aggregator's alert is kept and the first image-like entry of the        *)
(* listing is the image to display, shown under results/.                  *)
(***************************************************************************)
C7_LocatorAlert ==
  \A r \in Reqs :
    (Located(r) /\ trace[r].consulted) =>
      LET listing == trace[r].listing
          hits == {k \in DOMAIN listing : ImageLike(listing[k])}
      IN /\ HasDetections(local[r].results)
         /\ IF ~trace[r].dir_existed \/ hits = {}
              THEN /\ ~local[r].found_annotated_image
                   /\ local[r].alert_message = NOT_FOUND_ALERT
                   /\ local[r].image_to_display_path = local[r].filepath
                   /\ pc[r] = "done" => ShowsUpload(r)
              ELSE /\ local[r].found_annotated_image
                   /\ local[r].alert_message = trace[r].stage_alert
                   /\ \E k \in hits :
                        /\ \A j \in hits : k <= j
                        /\ local[r].image_to_display_path
                             = local[r].result_dir \o <<"/">> \o listing[k]
                        /\ pc[r] = "done" =>
                             /\ response[r].status = 200
                             /\ STATIC_PREFIX \o local[r].img_path_for_html
                                  = local[r].result_dir \o <<"/">> \o listing[k]

\* a mine warning lost: the directory holds no image-like file
C7_Witness ==
  \E r \in Reqs :
    /\ pc[r] = "done"
    /\ response[r].status = 200
    /\ trace[r].stage_alert = MINE_ALERT
    /\ trace[r].dir_existed
    /\ trace[r].listing # <<>>
    /\ local[r].alert_message = NOT_FOUND_ALERT

(***************************************************************************)
(* C8.  Once the handler reaches the path resolver it renders: whichever   *)
(* call raises, the answer is 200 and img_path is the artifact's path      *)
(* below static/ if nothing raised, the upload's path below static/ if     *)
(* only the relative-path computation raised and the retry succeeded, and  *)
(* the placeholder otherwise; no value holds a backslash.                  *)
(***************************************************************************)
C8_ResolverNeverFails ==
  \A r \in Reqs :
    (pc[r] = "done" /\ Located(r)) =>
      /\ response[r] = [status |-> 200, body |-> "result.html"]
      /\ "\\" \notin Range(local[r].img_path_for_html)
      /\ IF trace[r].raised = <<>>
           THEN /\ trace[r].tier = "artifact"
                /\ STATIC_PREFIX \o local[r].img_path_for_html
                     = local[r].image_to_display_path
         ELSE IF trace[r].raised = <<"relpath">>
           THEN /\ trace[r].tier = "original"
                /\ STATIC_PREFIX \o local[r].img_path_for_html
                     = local[r].filepath
         ELSE /\ trace[r].tier = "placeholder"
              /\ local[r].img_path_for_html = DEFAULT_IMAGE

\* the first fallback taken while an annotated image had been found
C8_Witness ==
  \E r \in Reqs :
    /\ pc[r] = "done"
    /\ trace[r].tier = "original"
    /\ local[r].found_annotated_image
    /\ local[r].img_path_for_html = UPLOADS_PREFIX \o local[r].filename

(***************************************************************************)
(* C9.  Two requests with the same sanitized filename share one upload     *)
(* path and nothing guards it: while one has saved its file and not yet    *)
(* called the model, the other's upload of that filename can take place    *)
(* and replaces the file; and the model reads whatever the path holds.     *)
(***************************************************************************)
C9_NoIsolation ==
  /\ \A r, q \in Reqs :
       (r # q /\ pc[r] = "saved" /\ pc[q] = "idle") =>
         ENABLED (/\ UploadHandler(q, {file[r]})
                  /\ pc'[q] = "saved"
                  /\ files'[local[r].filepath].bytes = q)
  /\ \A r \in Reqs :
       trace[r].seen # 0 =>
         /\ local[trace[r].seen].filename = local[r].filename
         /\ local[trace[r].seen].filepath = local[r].filepath

\* request 1 is rendered with the detections and the image of request 2's
\* bytes
C9_Witness ==
  /\ pc[1] = "done"
  /\ response[1].status = 200
  /\ local[1].filename = local[2].filename
  /\ trace[1].seen = 2
  /\ HasDetections(local[1].results)
  /\ local[1].image_to_display_path \in DOMAIN files
  /\ files[local[1].image_to_display_path].bytes = 2

(***************************************************************************)
(* C10.  With requests handled one after the other, an image displayed     *)
(* from the result directory is one the model call of the same request     *)
(* wrote.  The handler does not ensure this: the directory is shared by    *)
(* all uploads of one basename and is never cleaned, and the first         *)
(* image-like entry wins.                                                  *)
(***************************************************************************)
C10_ArtifactIsOwn ==
  \A r \in Reqs :
    (pc[r] = "done" /\ local[r].found_annotated_image) =>
      local[r].image_to_display_path \in trace[r].wrote


====
